---- MODULE Spec2Model ----
(***************************************************************************)
(* Model of src/vector.h: RawMemory<T> (an owning block of uninitialised   *)
(* slots) and Vector<T> (a growable sequence built on one RawMemory).      *)
(*                                                                         *)
(* The heap is a pool of blocks.  A slot of a block holds either no object *)
(* (Dead), an object whose value was moved away (MovedFrom), or a value of *)
(* T.  A Vector is its RawMemory (buffer_, capacity_) and its size_.       *)
(* Source indices are 0-based; slot i of a block is slots[i + 1].          *)
(***************************************************************************)
EXTENDS Integers, Sequences, FiniteSets, TLC

(* ------------------------------ bounds --------------------------------- *)
\* Largest Size() a call of Spec may leave container A with.
MaxSize == 4
\* Largest Size() a call of Spec may leave container B with.
MaxSizeB == 2
\* Number of block addresses the allocator can hand out.
NumBlocks == 3
\* Number of PushBack/PopBack calls in a run of StackSpec.
MaxOps == 7

(* --------------------------- element type T ---------------------------- *)
\* Values of T that callers pass in; T() is 0.
Values == {0, 1}
\* Two containers, as in "copy A into B".
Vecs == {"A", "B"}

\* The null pointer.
Null == 0
\* A slot of raw memory holding no object.
Dead == -1
\* The state of an object after std::move took its value.
MovedFrom == -2
\* T(): the value of a value-initialised element.
DefaultT == 0
VARIABLES
  alive,     \* alive[v]: v has been constructed and not yet destroyed
  buffer,    \* buffer[v]: data_.buffer_, a block or Null
  capacity,  \* capacity[v]: data_.capacity_
  size,      \* size[v]: size_
  heap,      \* heap[b]: [alloc, slots] of block b
  lost,      \* what the last call abandoned: "none", an "empty" block, or "live" objects
  ref,       \* a reference stack driven alongside vector A in StackSpec
  npush,     \* PushBack calls made in StackSpec
  npop,      \* PopBack calls made in StackSpec
  byMove,    \* the element type T is relocated by move (fixed when T is chosen)
  thrown     \* a call has failed and its exception has left the container

vars == <<alive, buffer, capacity, size, heap, lost, ref, npush, npop, byMove, thrown>>

\* std::is_nothrow_move_constructible_v<T> || !std::is_copy_constructible_v<T>
RelocateByMove == byMove

Blocks == 1..NumBlocks

Max(a, b) == IF a >= b THEN a ELSE b

(* ------------------------------ RawMemory ------------------------------ *)
FreeBlocks(h) == {b \in Blocks : ~h[b].alloc}

\* operator new returns some address that is not in use; block addresses are
\* interchangeable, so the lowest free one stands for any of them.
NewBlock(h) == CHOOSE b \in FreeBlocks(h) : \A c \in FreeBlocks(h) : b <= c

\* n raw slots, as operator new returns them.
RECURSIVE RawSlots(_)
RawSlots(n) == IF n = 0 THEN <<>> ELSE Append(RawSlots(n - 1), Dead)

\* RawMemory::Allocate(n): n # 0 ? operator new(n * sizeof(T)) : nullptr
Allocate(h, n) ==
  IF n # 0
  THEN [heap |-> [h EXCEPT ![NewBlock(h)] = [alloc |-> TRUE, slots |-> RawSlots(n)]],
        buf |-> NewBlock(h)]
  ELSE [heap |-> h, buf |-> Null]

\* Whether the allocator can serve Allocate(n).
CanAllocate(h, n) == n = 0 \/ FreeBlocks(h) # {}

\* RawMemory::Deallocate(buf): operator delete(buf); deleting nullptr does nothing.
Deallocate(h, b) ==
  IF b = Null THEN h ELSE [h EXCEPT ![b].alloc = FALSE]

\* RawMemory::operator[] / operator+: the slot at index i of block b.
Get(h, b, i) == h[b].slots[i + 1]

(* ---------------------- object lifetime primitives --------------------- *)
\* new (addr) T(x): construct a value in slot i of block b.  Assignment to a
\* live slot stores the same way.
Put(h, b, i, x) == [h EXCEPT ![b].slots[i + 1] = x]

\* std::destroy_n(b + first, n): element by element, in order.
RECURSIVE DestroyN(_, _, _, _)
DestroyN(h, b, first, n) ==
  IF n <= 0 THEN h ELSE DestroyN(Put(h, b, first, Dead), b, first + 1, n - 1)

\* A value construction that leaves the last slot raw.
RECURSIVE MutValueConstructOneShort(_, _, _, _)
MutValueConstructOneShort(h, b, first, n) ==
  IF n <= 1 THEN h
  ELSE MutValueConstructOneShort(Put(h, b, first, DefaultT), b, first + 1, n - 1)

\* std::uninitialized_value_construct_n(b + first, n)
RECURSIVE UninitializedValueConstructN(_, _, _, _)
UninitializedValueConstructN(h, b, first, n) ==
  IF n <= 0 THEN h
  ELSE UninitializedValueConstructN(Put(h, b, first, DefaultT), b, first + 1, n - 1)

\* std::uninitialized_copy_n(sb + s, n, db + d): element by element, in order.
RECURSIVE UninitializedCopyN(_, _, _, _, _, _)
UninitializedCopyN(h, sb, s, n, db, d) ==
  IF n <= 0 THEN h
  ELSE UninitializedCopyN(Put(h, db, d, Get(h, sb, s)), sb, s + 1, n - 1, db, d + 1)

\* A relocation that moves one element too few.
RECURSIVE MutMoveNOneShort(_, _, _, _, _, _)
MutMoveNOneShort(h, sb, s, n, db, d) ==
  IF n <= 1 THEN h
  ELSE MutMoveNOneShort(Put(Put(h, db, d, Get(h, sb, s)), sb, s, MovedFrom),
                        sb, s + 1, n - 1, db, d + 1)

\* std::uninitialized_move_n(sb + s, n, db + d): as the copy, and each source
\* object is left moved-from.
RECURSIVE UninitializedMoveN(_, _, _, _, _, _)
UninitializedMoveN(h, sb, s, n, db, d) ==
  IF n <= 0 THEN h
  ELSE UninitializedMoveN(Put(Put(h, db, d, Get(h, sb, s)), sb, s, MovedFrom),
                          sb, s + 1, n - 1, db, d + 1)

\* The relocation policy, chosen once per element type (if constexpr).
Relocate(h, sb, s, n, db, d) ==
  IF RelocateByMove THEN UninitializedMoveN(h, sb, s, n, db, d)
  ELSE UninitializedCopyN(h, sb, s, n, db, d)

\* A shift down that stops one element early.
RECURSIVE MutMoveForwardOneShort(_, _, _, _, _)
MutMoveForwardOneShort(h, b, first, lastx, d) ==
  IF first >= lastx - 1 THEN h
  ELSE MutMoveForwardOneShort(Put(Put(h, b, d, Get(h, b, first)), b, first, MovedFrom),
                              b, first + 1, lastx, d + 1)

\* std::move(b + first, b + lastx, b + d): move-assign forwards.
RECURSIVE MoveForward(_, _, _, _, _)
MoveForward(h, b, first, lastx, d) ==
  IF first >= lastx THEN h
  ELSE MoveForward(Put(Put(h, b, d, Get(h, b, first)), b, first, MovedFrom),
                   b, first + 1, lastx, d + 1)

\* A shift up that walks the range front to back, as std::move would: each
\* element lands on the one that is moved next.
RECURSIVE MutMoveBackwardFrontFirst(_, _, _, _, _)
MutMoveBackwardFrontFirst(h, b, first, lastx, dlast) ==
  IF first >= lastx THEN h
  ELSE MutMoveBackwardFrontFirst(
         Put(Put(h, b, dlast - (lastx - first), Get(h, b, first)), b, first, MovedFrom),
         b, first + 1, lastx, dlast)

\* std::move_backward(b + first, b + lastx, b + dlast): move-assign, last first.
RECURSIVE MoveBackward(_, _, _, _, _)
MoveBackward(h, b, first, lastx, dlast) ==
  IF first >= lastx THEN h
  ELSE MoveBackward(Put(Put(h, b, dlast - 1, Get(h, b, lastx - 1)), b, lastx - 1, MovedFrom),
                    b, first, lastx - 1, dlast - 1)

\* for (i = 0; i < n; ++i) data_[i] = rhs[i];
RECURSIVE CopyAssignN(_, _, _, _, _)
CopyAssignN(h, sb, db, i, n) ==
  IF i >= n THEN h
  ELSE CopyAssignN(Put(h, db, i, Get(h, sb, i)), sb, db, i + 1, n)

(* ------------------------------- Vector -------------------------------- *)
\* A program state as a value: the heap and the fields of every Vector object.
\* ret is what the call under way returns: an iterator [blk, off], or NoRet.
NoRet == [blk |-> Null, off |-> -1]
Cur == [heap |-> heap, buffer |-> buffer, capacity |-> capacity, size |-> size,
        ret |-> NoRet]

\* Size()
Size(v) == size[v]
\* Capacity()
Capacity(v) == capacity[v]

\* The elements [0, Size()) of v in state st, read through operator[].
ElemsIn(st, v) == [i \in 1..st.size[v] |-> st.heap[st.buffer[v]].slots[i]]
Elems(v) == ElemsIn(Cur, v)

\* The fields of one more object, a local of the running call, not yet constructed.
WithLocal(st, o) ==
  [st EXCEPT !.buffer = [x \in DOMAIN st.buffer \cup {o} |-> IF x = o THEN Null ELSE st.buffer[x]],
             !.capacity = [x \in DOMAIN st.capacity \cup {o} |-> IF x = o THEN 0 ELSE st.capacity[x]],
             !.size = [x \in DOMAIN st.size \cup {o} |-> IF x = o THEN 0 ELSE st.size[x]]]

\* The local goes out of scope (after its destructor ran).
WithoutLocal(st, o) ==
  [st EXCEPT !.buffer = [x \in DOMAIN st.buffer \ {o} |-> st.buffer[x]],
             !.capacity = [x \in DOMAIN st.capacity \ {o} |-> st.capacity[x]],
             !.size = [x \in DOMAIN st.size \ {o} |-> st.size[x]]]

\* A move assignment that resets the source's buffer_ and forgets capacity_.
MutRawMoveAssignKeepsCapacity(st, v, o) ==
  LET b1 == [st.buffer EXCEPT ![v] = st.buffer[o]]
  IN [st EXCEPT !.buffer = [b1 EXCEPT ![o] = Null],
                !.capacity[v] = st.capacity[o]]

\* A move assignment that leaves the source pointing at the block.
MutRawMoveAssignKeepsSource(st, v, o) ==
  [st EXCEPT !.buffer[v] = st.buffer[o], !.capacity[v] = st.capacity[o]]

\* RawMemory::operator=(RawMemory&&): v.data_ = std::move(o.data_)
RawMoveAssign(st, v, o) ==
  LET b1 == [st.buffer EXCEPT ![v] = st.buffer[o]]
      c1 == [st.capacity EXCEPT ![v] = st.capacity[o]]
  IN [st EXCEPT !.buffer = [b1 EXCEPT ![o] = Null],
                !.capacity = [c1 EXCEPT ![o] = 0]]

\* A growth policy that doubles without the case of an empty container.
MutGrowthNoEmptyCase(sz) == sz * 2

\* A growth policy that adds one slot instead of doubling.
MutGrowthByOne(sz) == sz + 1

\* The new capacity a growing append or insert asks for.
GrowthCapacity(sz) == IF sz = 0 THEN 1 ELSE sz * 2

\* A growing call that never releases the block it replaced.
MutAdoptBlockNoRelease(st, v, h, nb, ncap) ==
  [st EXCEPT !.heap = DestroyN(h, st.buffer[v], 0, st.size[v]),
             !.buffer[v] = nb,
             !.capacity[v] = ncap]

\* The tail of a growing call: relocation done, destroy the old elements,
\* data_.Swap(new_data), and new_data's destructor releases the old block.
AdoptBlock(st, v, h, nb, ncap) ==
  [st EXCEPT !.heap = Deallocate(DestroyN(h, st.buffer[v], 0, st.size[v]), st.buffer[v]),
             !.buffer[v] = nb,
             !.capacity[v] = ncap]

\* Vector()
DefaultCtorOp(st, v) ==
  [st EXCEPT !.buffer[v] = Null, !.capacity[v] = 0, !.size[v] = 0]

\* Vector(size_t size)
SizedCtorOp(st, v, n) ==
  LET a == Allocate(st.heap, n)
  IN [st EXCEPT !.heap = UninitializedValueConstructN(a.heap, a.buf, 0, n),
                !.buffer[v] = a.buf, !.capacity[v] = n, !.size[v] = n]

\* A copy that takes the other container's block instead of copying into its own.
MutCopyCtorShallow(st, v, o) ==
  [st EXCEPT !.buffer[v] = st.buffer[o], !.capacity[v] = st.size[o], !.size[v] = st.size[o]]

\* Vector(const Vector& other)
CopyCtorOp(st, v, o) ==
  LET a == Allocate(st.heap, st.size[o])
  IN [st EXCEPT !.heap = UninitializedCopyN(a.heap, st.buffer[o], 0, st.size[o], a.buf, 0),
                !.buffer[v] = a.buf, !.capacity[v] = st.size[o], !.size[v] = st.size[o]]

\* Vector(Vector&& other): data_ starts null/0, then the two assignments.
MoveCtorOp(st, v, o) ==
  LET s1 == RawMoveAssign(DefaultCtorOp(st, v), v, o)
      s2 == [s1 EXCEPT !.size[v] = s1.size[o]]
  IN [s2 EXCEPT !.size[o] = 0]

\* ~Vector(), then ~RawMemory()
DtorOp(st, v) ==
  [st EXCEPT !.heap = Deallocate(DestroyN(st.heap, st.buffer[v], 0, st.size[v]), st.buffer[v]),
             !.buffer[v] = Null, !.capacity[v] = 0, !.size[v] = 0]

\* A Swap that exchanges the storage and leaves each size_ where it was.
MutSwapKeepsSizes(st, v, o) ==
  [st EXCEPT !.buffer[v] = st.buffer[o], !.buffer[o] = st.buffer[v],
             !.capacity[v] = st.capacity[o], !.capacity[o] = st.capacity[v]]

\* Vector::Swap(other), through the local RawMemory tmp_data
SwapOp(st, v, o) ==
  LET s0 == WithLocal(st, "tmp_data")
      s1 == RawMoveAssign(s0, "tmp_data", o)
      tmp_size == s1.size[o]
      s2 == RawMoveAssign(s1, o, v)
      s3 == [s2 EXCEPT !.size[o] = s2.size[v]]
      s4 == RawMoveAssign(s3, v, "tmp_data")
      s5 == [s4 EXCEPT !.size[v] = tmp_size]
      s6 == [s5 EXCEPT !.heap = Deallocate(s5.heap, s5.buffer["tmp_data"])]
  IN WithoutLocal(s6, "tmp_data")

\* Vector::operator=(const Vector& rhs)
CopyAssignOp(st, v, rhs) ==
  IF st.size[rhs] > st.capacity[v]
  THEN LET s1 == CopyCtorOp(WithLocal(st, "rhs_copy"), "rhs_copy", rhs)
           s2 == SwapOp(s1, v, "rhs_copy")
       IN WithoutLocal(DtorOp(s2, "rhs_copy"), "rhs_copy")
  ELSE LET n == st.size[rhs]
           m == st.size[v]
           h == IF n < m
                THEN DestroyN(CopyAssignN(st.heap, st.buffer[rhs], st.buffer[v], 0, n),
                              st.buffer[v], n, m - n)
                ELSE UninitializedCopyN(CopyAssignN(st.heap, st.buffer[rhs], st.buffer[v], 0, m),
                                        st.buffer[rhs], m, n - m, st.buffer[v], m)
       IN [st EXCEPT !.heap = h, !.size[v] = st.size[rhs]]

\* Vector::operator=(Vector&& rhs)
MoveAssignOp(st, v, rhs) ==
  LET s1 == RawMoveAssign(st, v, rhs)
      s2 == [s1 EXCEPT !.size[v] = s1.size[rhs]]
  IN [s2 EXCEPT !.size[rhs] = 0]

\* begin() + off
Iter(st, v, off) == [blk |-> st.buffer[v], off |-> off]

\* Vector::Emplace(position, args...), pos = position - begin(), x = T(args...)
EmplaceOp(st, v, pos, x) ==
  LET b == st.buffer[v]
      sz == st.size[v]
      s1 == IF st.capacity[v] > sz
            THEN IF pos # sz
                 THEN LET tmp_obj == x
                          h1 == Put(Put(st.heap, b, sz, Get(st.heap, b, sz - 1)),
                                    b, sz - 1, MovedFrom)
                          h2 == MoveBackward(h1, b, pos, sz - 1, sz)
                      IN [st EXCEPT !.heap = Put(h2, b, pos, tmp_obj)]
                 ELSE [st EXCEPT !.heap = Put(st.heap, b, sz, x)]
            ELSE LET a == Allocate(st.heap, GrowthCapacity(sz))
                     h1 == Put(a.heap, a.buf, pos, x)
                     h2 == Relocate(h1, b, 0, pos, a.buf, 0)
                     h3 == Relocate(h2, b, pos, sz - pos, a.buf, pos + 1)
                 IN AdoptBlock(st, v, h3, a.buf, GrowthCapacity(sz))
      s2 == [s1 EXCEPT !.size[v] = sz + 1]
  IN [s2 EXCEPT !.ret = Iter(s2, v, pos)]

\* Vector::Insert(position, value): return Emplace(position, value)
InsertOp(st, v, pos, x) == EmplaceOp(st, v, pos, x)

\* Vector::Erase(position), pos = position - begin()
EraseOp(st, v, pos) ==
  LET b == st.buffer[v]
      sz == st.size[v]
      h1 == MoveForward(st.heap, b, pos + 1, sz, pos)
      s1 == [st EXCEPT !.heap = DestroyN(h1, b, sz - 1, 1), !.size[v] = sz - 1]
  IN [s1 EXCEPT !.ret = Iter(s1, v, pos)]

\* A Reserve that also shrinks the block to the request when the elements fit.
MutReserveShrinks(st, v, c) ==
  IF st.capacity[v] = c \/ c < st.size[v] THEN st
  ELSE LET a == Allocate(st.heap, c)
           h1 == Relocate(a.heap, st.buffer[v], 0, st.size[v], a.buf, 0)
       IN AdoptBlock(st, v, h1, a.buf, c)

\* Vector::Reserve(capacity)
ReserveOp(st, v, c) ==
  IF st.capacity[v] >= c THEN st
  ELSE LET a == Allocate(st.heap, c)
           h1 == Relocate(a.heap, st.buffer[v], 0, st.size[v], a.buf, 0)
       IN AdoptBlock(st, v, h1, a.buf, c)

\* Vector::Resize(new_size)
ResizeOp(st, v, n) ==
  IF n = st.size[v] THEN st
  ELSE IF n < st.size[v]
       THEN [st EXCEPT !.heap = DestroyN(st.heap, st.buffer[v], n, st.size[v] - n),
                       !.size[v] = n]
       ELSE LET r == ReserveOp(st, v, n)
            IN [r EXCEPT !.heap = UninitializedValueConstructN(r.heap, r.buffer[v],
                                                               r.size[v], n - r.size[v]),
                         !.size[v] = n]

\* Vector::PushBack(value)
PushBackOp(st, v, x) ==
  LET b == st.buffer[v]
      sz == st.size[v]
  IN IF st.capacity[v] > sz
     THEN [st EXCEPT !.heap = Put(st.heap, b, sz, x), !.size[v] = sz + 1]
     ELSE LET a == Allocate(st.heap, GrowthCapacity(sz))
              h1 == Put(a.heap, a.buf, sz, x)
              h2 == Relocate(h1, b, 0, sz, a.buf, 0)
              s1 == AdoptBlock(st, v, h2, a.buf, GrowthCapacity(sz))
          IN [s1 EXCEPT !.size[v] = sz + 1]

\* Vector::EmplaceBack(args...): returns data_[size_++]
EmplaceBackOp(st, v, x) ==
  LET b == st.buffer[v]
      sz == st.size[v]
      s1 == IF st.capacity[v] > sz
            THEN [st EXCEPT !.heap = Put(st.heap, b, sz, x)]
            ELSE LET a == Allocate(st.heap, GrowthCapacity(sz))
                     h1 == Put(a.heap, a.buf, sz, x)
                     h2 == Relocate(h1, b, 0, sz, a.buf, 0)
                 IN AdoptBlock(st, v, h2, a.buf, GrowthCapacity(sz))
  IN [s1 EXCEPT !.ret = Iter(s1, v, sz), !.size[v] = sz + 1]

\* A PopBack that only decrements size_.
MutPopBackKeepsObject(st, v) ==
  [st EXCEPT !.size[v] = st.size[v] - 1]

\* Vector::PopBack()
PopBackOp(st, v) ==
  [st EXCEPT !.heap = DestroyN(st.heap, st.buffer[v], st.size[v] - 1, 1),
             !.size[v] = st.size[v] - 1]

\* v[index] = x through Vector::operator[](size_t)
SetAtOp(st, v, index, x) ==
  [st EXCEPT !.heap = Put(st.heap, st.buffer[v], index, x)]

(* ------------- arguments that refer to an element of *this ------------ *)
\* The argument is the reference (*this)[j]: the new element is copy
\* constructed from whatever slot j of the old block holds at the moment the
\* code constructs it.

\* An Emplace that shifts or relocates first and constructs the new element
\* from the reference afterwards.
MutEmplaceElemShiftsFirst(st, v, pos, j) ==
  LET b == st.buffer[v]
      sz == st.size[v]
      s1 == IF st.capacity[v] > sz
            THEN IF pos # sz
                 THEN LET h1 == Put(Put(st.heap, b, sz, Get(st.heap, b, sz - 1)),
                                    b, sz - 1, MovedFrom)
                          h2 == MoveBackward(h1, b, pos, sz - 1, sz)
                      IN [st EXCEPT !.heap = Put(h2, b, pos, Get(h2, b, j))]
                 ELSE [st EXCEPT !.heap = Put(st.heap, b, sz, Get(st.heap, b, j))]
            ELSE LET a == Allocate(st.heap, GrowthCapacity(sz))
                     h2 == Relocate(a.heap, b, 0, pos, a.buf, 0)
                     h3 == Relocate(h2, b, pos, sz - pos, a.buf, pos + 1)
                 IN AdoptBlock(st, v, Put(h3, a.buf, pos, Get(h3, b, j)),
                               a.buf, GrowthCapacity(sz))
      s2 == [s1 EXCEPT !.size[v] = sz + 1]
  IN [s2 EXCEPT !.ret = Iter(s2, v, pos)]

\* Emplace(begin() + pos, (*this)[j])
EmplaceElemOp(st, v, pos, j) ==
  LET b == st.buffer[v]
      sz == st.size[v]
      s1 == IF st.capacity[v] > sz
            THEN IF pos # sz
                 THEN LET tmp_obj == Get(st.heap, b, j)
                          h1 == Put(Put(st.heap, b, sz, Get(st.heap, b, sz - 1)),
                                    b, sz - 1, MovedFrom)
                          h2 == MoveBackward(h1, b, pos, sz - 1, sz)
                      IN [st EXCEPT !.heap = Put(h2, b, pos, tmp_obj)]
                 ELSE [st EXCEPT !.heap = Put(st.heap, b, sz, Get(st.heap, b, j))]
            ELSE LET a == Allocate(st.heap, GrowthCapacity(sz))
                     h1 == Put(a.heap, a.buf, pos, Get(a.heap, b, j))
                     h2 == Relocate(h1, b, 0, pos, a.buf, 0)
                     h3 == Relocate(h2, b, pos, sz - pos, a.buf, pos + 1)
                 IN AdoptBlock(st, v, h3, a.buf, GrowthCapacity(sz))
      s2 == [s1 EXCEPT !.size[v] = sz + 1]
  IN [s2 EXCEPT !.ret = Iter(s2, v, pos)]

\* Insert(begin() + pos, (*this)[j]): return Emplace(position, value)
InsertElemOp(st, v, pos, j) == EmplaceElemOp(st, v, pos, j)

\* PushBack((*this)[j])
PushBackElemOp(st, v, j) ==
  LET b == st.buffer[v]
      sz == st.size[v]
  IN IF st.capacity[v] > sz
     THEN [st EXCEPT !.heap = Put(st.heap, b, sz, Get(st.heap, b, j)), !.size[v] = sz + 1]
     ELSE LET a == Allocate(st.heap, GrowthCapacity(sz))
              h1 == Put(a.heap, a.buf, sz, Get(a.heap, b, j))
              h2 == Relocate(h1, b, 0, sz, a.buf, 0)
              s1 == AdoptBlock(st, v, h2, a.buf, GrowthCapacity(sz))
          IN [s1 EXCEPT !.size[v] = sz + 1]

\* EmplaceBack((*this)[j])
EmplaceBackElemOp(st, v, j) ==
  LET b == st.buffer[v]
      sz == st.size[v]
      s1 == IF st.capacity[v] > sz
            THEN [st EXCEPT !.heap = Put(st.heap, b, sz, Get(st.heap, b, j))]
            ELSE LET a == Allocate(st.heap, GrowthCapacity(sz))
                     h1 == Put(a.heap, a.buf, sz, Get(a.heap, b, j))
                     h2 == Relocate(h1, b, 0, sz, a.buf, 0)
                 IN AdoptBlock(st, v, h2, a.buf, GrowthCapacity(sz))
  IN [s1 EXCEPT !.ret = Iter(s1, v, sz), !.size[v] = sz + 1]

(* ------------------------- calls that fail --------------------------- *)
\* A failing call is the state it leaves once its exception has unwound the
\* call: the locals are destroyed, the container is whatever the call made of
\* it up to the throw.  k counts the element operations that succeeded.

\* A relocation that moves, instead of copying, up to the failure.
MutMoveNFails(h, sb, s, k, db, d) ==
  DestroyN(UninitializedMoveN(h, sb, s, k, db, d), db, d, k)

\* An uninitialized_copy_n that throws without destroying the copies it made.
MutCopyNFailsNoCleanup(h, sb, s, k, db, d) == UninitializedCopyN(h, sb, s, k, db, d)

\* std::uninitialized_copy_n(sb + s, n, db + d) whose copy number k throws:
\* it destroys the k objects it constructed and rethrows.
CopyNFails(h, sb, s, k, db, d) ==
  DestroyN(UninitializedCopyN(h, sb, s, k, db, d), db, d, k)

\* Reserve(c), c > Capacity(): the copy of element k throws; new_data's
\* destructor releases the new block.
ReserveFailOp(st, v, c, k) ==
  LET a == Allocate(st.heap, c)
      h1 == CopyNFails(a.heap, st.buffer[v], 0, k, a.buf, 0)
  IN [st EXCEPT !.heap = Deallocate(h1, a.buf)]

\* PushBack(x) without a free slot: the new element is constructed in
\* new_data, then the copy of element k throws; ~RawMemory releases new_data.
PushBackFailOp(st, v, x, k) ==
  LET sz == st.size[v]
      a == Allocate(st.heap, GrowthCapacity(sz))
      h1 == Put(a.heap, a.buf, sz, x)
      h2 == CopyNFails(h1, st.buffer[v], 0, k, a.buf, 0)
  IN [st EXCEPT !.heap = Deallocate(h2, a.buf)]

\* EmplaceBack(x) without a free slot, failing the same way.
EmplaceBackFailOp(st, v, x, k) ==
  LET sz == st.size[v]
      a == Allocate(st.heap, GrowthCapacity(sz))
      h1 == Put(a.heap, a.buf, sz, x)
      h2 == CopyNFails(h1, st.buffer[v], 0, k, a.buf, 0)
  IN [st EXCEPT !.heap = Deallocate(h2, a.buf)]

\* Emplace(pos, x) without a free slot: the copy of element k throws, in the
\* first uninitialized_copy_n when k < pos and in the second otherwise.
EmplaceFailOp(st, v, pos, x, k) ==
  LET b == st.buffer[v]
      sz == st.size[v]
      a == Allocate(st.heap, GrowthCapacity(sz))
      h1 == Put(a.heap, a.buf, pos, x)
      h2 == IF k < pos
            THEN CopyNFails(h1, b, 0, k, a.buf, 0)
            ELSE CopyNFails(UninitializedCopyN(h1, b, 0, pos, a.buf, 0),
                            b, pos, k - pos, a.buf, pos + 1)
  IN [st EXCEPT !.heap = Deallocate(h2, a.buf)]

\* Insert(pos, x) without a free slot: return Emplace(position, value)
InsertFailOp(st, v, pos, x, k) == EmplaceFailOp(st, v, pos, x, k)

\* Vector(const Vector& other) whose copy number k throws: the copies made
\* are destroyed and ~RawMemory releases data_ of the object that was being
\* constructed, which never comes to exist.
CopyCtorFailOp(st, o, k) ==
  LET a == Allocate(st.heap, st.size[o])
  IN [st EXCEPT !.heap = Deallocate(CopyNFails(a.heap, st.buffer[o], 0, k, a.buf, 0),
                                    a.buf)]

\* The loop data_[i] = rhs[i] whose assignment number k throws: k elements
\* are assigned and T's operator= leaves element k holding some value y.
CopyAssignNFails(h, sb, db, k, y) == Put(CopyAssignN(h, sb, db, 0, k), db, k, y)

\* operator=(const Vector& rhs) failing after k element operations: in the
\* temporary's construction when rhs.Size() > Capacity(), else in the
\* assignment loop (k < Size()) or in uninitialized_copy_n.  size_ is not
\* reached.
CopyAssignFailOp(st, v, rhs, k, y) ==
  IF st.size[rhs] > st.capacity[v]
  THEN CopyCtorFailOp(st, rhs, k)
  ELSE IF k < st.size[v]
  THEN [st EXCEPT !.heap = CopyAssignNFails(st.heap, st.buffer[rhs], st.buffer[v], k, y)]
  ELSE [st EXCEPT !.heap =
          CopyNFails(CopyAssignN(st.heap, st.buffer[rhs], st.buffer[v], 0, st.size[v]),
                     st.buffer[rhs], st.size[v], k - st.size[v],
                     st.buffer[v], st.size[v])]

\* operator delete(b + off) in the handler of Emplace.  At offset 0 the
\* pointer is the one operator new returned and the block is released.  At
\* any other offset the pointer was never returned by operator new and the
\* behaviour is undefined: the allocator may leave the heap as it is or
\* release the block the pointer lies in.
DeleteOutcomes == {"ignored", "released"}
DeleteAt(h, b, off, outcome) ==
  IF off = 0 \/ outcome = "released" THEN Deallocate(h, b) ELSE h

\* The steps of Emplace(begin() + pos, ...) with a free slot, in order:
\* T tmp_obj(args), new (end()) T(last), sz - 1 - pos move assignments of
\* move_backward, the assignment into pos; at pos = end() the one construction.
InPlaceSteps(st, v, pos) == IF pos = st.size[v] THEN 1 ELSE st.size[v] - pos + 2

\* Emplace(begin() + pos, ...) with Capacity() > Size() whose step number k
\* throws: a failing assignment leaves its target holding some value y.  The
\* handler calls operator delete(end()) and rethrows; size_ is not reached.
EmplaceInPlaceFailOp(st, v, pos, k, y, outcome) ==
  LET b == st.buffer[v]
      sz == st.size[v]
      tail == Put(Put(st.heap, b, sz, Get(st.heap, b, sz - 1)), b, sz - 1, MovedFrom)
      h == IF pos = sz \/ k < 2 THEN st.heap
           ELSE IF k < sz - pos + 1
           THEN Put(MoveBackward(tail, b, sz + 1 - k, sz - 1, sz), b, sz + 1 - k, y)
           ELSE Put(MoveBackward(tail, b, pos, sz - 1, sz), b, pos, y)
  IN [st EXCEPT !.heap = DeleteAt(h, b, sz, outcome)]

\* Insert(position, value) failing with a free slot: return Emplace(...)
InsertInPlaceFailOp(st, v, pos, k, y, outcome) ==
  EmplaceInPlaceFailOp(st, v, pos, k, y, outcome)

(* ------------------------------- actions ------------------------------- *)
\* A block that no RawMemory points to can never be reached again, whatever it
\* holds.  The model drops such a block from the heap when a call returns and
\* keeps in lost whether that call abandoned one, and whether with objects in it.
Owned(st) == {st.buffer[v] : v \in DOMAIN st.buffer}
Abandoned(st) == {b \in Blocks : st.heap[b].alloc /\ b \notin Owned(st)}
Released(st) == {b \in Blocks : ~st.heap[b].alloc /\ st.heap[b].slots # <<>>}
HoldsObject(st, b) == \E i \in DOMAIN st.heap[b].slots : st.heap[b].slots[i] # Dead
LostAfter(st) ==
  IF \E b \in Abandoned(st) \cup Released(st) : HoldsObject(st, b) THEN "live"
  ELSE IF Abandoned(st) # {} THEN "empty"
  ELSE "none"

\* operator new may hand out any free address, so a state is kept up to a
\* renaming of addresses: when a call returns, the blocks in use are numbered
\* in the order of their owners.
OwnedSeq(st) ==
  LET a == st.buffer["A"]
      b == st.buffer["B"]
  IN (IF a # Null THEN <<a>> ELSE <<>>) \o (IF b # Null /\ b # a THEN <<b>> ELSE <<>>)
Renamed(st, b) ==
  IF b = Null THEN Null
  ELSE CHOOSE i \in 1..Len(OwnedSeq(st)) : OwnedSeq(st)[i] = b
HeapAfter(st) ==
  [i \in Blocks |-> IF i <= Len(OwnedSeq(st)) THEN st.heap[OwnedSeq(st)[i]]
                    ELSE [alloc |-> FALSE, slots |-> <<>>]]

hist == <<ref, npush, npop, byMove, thrown>>

Becomes(st) ==
  /\ heap' = HeapAfter(st)
  /\ lost' = LostAfter(st)
  /\ buffer' = [v \in Vecs |-> Renamed(st, st.buffer[v])]
  /\ capacity' = st.capacity
  /\ size' = st.size

\* A call is taken while the sizes it leaves fit the bounds, and the
\* capacities are those such sizes can grow into; a run ends with the first
\* call that throws.
SizeBound(v) == IF v = "A" THEN MaxSize ELSE MaxSizeB
CapacityBound(v) == Max(SizeBound(v), GrowthCapacity(SizeBound(v) - 1))
Fits(st) ==
  \A v \in Vecs : st.size[v] <= SizeBound(v) /\ st.capacity[v] <= CapacityBound(v)
Step(st) == ~thrown /\ Fits(st) /\ Becomes(st)

\* One default-constructed container A; B is not constructed yet.
Start ==
  /\ alive = [v \in Vecs |-> v = "A"]
  /\ buffer = [v \in Vecs |-> Null]
  /\ capacity = [v \in Vecs |-> 0]
  /\ size = [v \in Vecs |-> 0]
  /\ heap = [b \in Blocks |-> [alloc |-> FALSE, slots |-> <<>>]]
  /\ lost = "none"
  /\ ref = <<>>
  /\ npush = 0
  /\ npop = 0
  /\ thrown = FALSE

\* T is nothrow-move-constructible, as int is: relocation moves and cannot fail.
Init == Start /\ byMove = TRUE

DefaultCtor(v) ==
  /\ ~alive[v]
  /\ alive' = [alive EXCEPT ![v] = TRUE]
  /\ Step(DefaultCtorOp(Cur, v))
  /\ UNCHANGED hist

SizedCtor(v, n) ==
  /\ ~alive[v]
  /\ CanAllocate(heap, n)
  /\ alive' = [alive EXCEPT ![v] = TRUE]
  /\ Step(SizedCtorOp(Cur, v, n))
  /\ UNCHANGED hist

CopyCtor(v, o) ==
  /\ ~alive[v] /\ alive[o]
  /\ CanAllocate(heap, size[o])
  /\ alive' = [alive EXCEPT ![v] = TRUE]
  /\ Step(CopyCtorOp(Cur, v, o))
  /\ UNCHANGED hist

MoveCtor(v, o) ==
  /\ ~alive[v] /\ alive[o]
  /\ alive' = [alive EXCEPT ![v] = TRUE]
  /\ Step(MoveCtorOp(Cur, v, o))
  /\ UNCHANGED hist

Dtor(v) ==
  /\ alive[v]
  /\ alive' = [alive EXCEPT ![v] = FALSE]
  /\ Step(DtorOp(Cur, v))
  /\ UNCHANGED hist

CopyAssign(v, rhs) ==
  /\ alive[v] /\ alive[rhs]
  /\ size[rhs] > capacity[v] => CanAllocate(heap, size[rhs])
  /\ Step(CopyAssignOp(Cur, v, rhs))
  /\ UNCHANGED <<alive, hist>>

MoveAssign(v, rhs) ==
  /\ alive[v] /\ alive[rhs]
  /\ Step(MoveAssignOp(Cur, v, rhs))
  /\ UNCHANGED <<alive, hist>>

Swap(v, o) ==
  /\ alive[v] /\ alive[o]
  /\ Step(SwapOp(Cur, v, o))
  /\ UNCHANGED <<alive, hist>>

\* A growing append or insert is taken while the result fits the bounds.
CanGrow(v) ==
  /\ alive[v]
  /\ size[v] < SizeBound(v)
  /\ capacity[v] > size[v] \/ CanAllocate(heap, GrowthCapacity(size[v]))

Emplace(v, pos, x) ==
  /\ CanGrow(v)
  /\ pos \in 0..size[v]
  /\ Step(EmplaceOp(Cur, v, pos, x))
  /\ UNCHANGED <<alive, hist>>

Insert(v, pos, x) ==
  /\ CanGrow(v)
  /\ pos \in 0..size[v]
  /\ Step(InsertOp(Cur, v, pos, x))
  /\ UNCHANGED <<alive, hist>>

Erase(v, pos) ==
  /\ alive[v]
  /\ pos \in 0..(size[v] - 1)
  /\ Step(EraseOp(Cur, v, pos))
  /\ UNCHANGED <<alive, hist>>

Reserve(v, c) ==
  /\ alive[v]
  /\ c > capacity[v] => CanAllocate(heap, c)
  /\ Step(ReserveOp(Cur, v, c))
  /\ UNCHANGED <<alive, hist>>

Resize(v, n) ==
  /\ alive[v]
  /\ n > capacity[v] => CanAllocate(heap, n)
  /\ Step(ResizeOp(Cur, v, n))
  /\ UNCHANGED <<alive, hist>>

PushBack(v, x) ==
  /\ CanGrow(v)
  /\ Step(PushBackOp(Cur, v, x))
  /\ UNCHANGED <<alive, hist>>

EmplaceBack(v, x) ==
  /\ CanGrow(v)
  /\ Step(EmplaceBackOp(Cur, v, x))
  /\ UNCHANGED <<alive, hist>>

PopBack(v) ==
  /\ alive[v]
  /\ size[v] > 0
  /\ Step(PopBackOp(Cur, v))
  /\ UNCHANGED <<alive, hist>>

SetAt(v, index, x) ==
  /\ alive[v]
  /\ index \in 0..(size[v] - 1)
  /\ Step(SetAtOp(Cur, v, index, x))
  /\ UNCHANGED <<alive, hist>>

Next ==
  \/ \E v \in Vecs : DefaultCtor(v)
  \/ \E v \in Vecs, n \in 0..MaxSize : SizedCtor(v, n)
  \/ \E v, o \in Vecs : CopyCtor(v, o)
  \/ \E v, o \in Vecs : MoveCtor(v, o)
  \/ \E v \in Vecs : Dtor(v)
  \/ \E v, rhs \in Vecs : CopyAssign(v, rhs)
  \/ \E v, rhs \in Vecs : MoveAssign(v, rhs)
  \/ \E v, o \in Vecs : Swap(v, o)
  \/ \E v \in Vecs, pos \in 0..MaxSize, x \in Values : Emplace(v, pos, x)
  \/ \E v \in Vecs, pos \in 0..MaxSize, x \in Values : Insert(v, pos, x)
  \/ \E v \in Vecs, pos \in 0..MaxSize : Erase(v, pos)
  \/ \E v \in Vecs, c \in 0..MaxSize : Reserve(v, c)
  \/ \E v \in Vecs, n \in 0..MaxSize : Resize(v, n)
  \/ \E v \in Vecs, x \in Values : PushBack(v, x)
  \/ \E v \in Vecs, x \in Values : EmplaceBack(v, x)
  \/ \E v \in Vecs : PopBack(v)
  \/ \E v \in Vecs, index \in 0..MaxSize, x \in Values : SetAt(v, index, x)

\* The exception leaves the call: the state is what the call left behind.
Throws(st) ==
  /\ ~thrown
  /\ Becomes(st)
  /\ thrown' = TRUE
  /\ UNCHANGED <<alive, ref, npush, npop, byMove>>

\* Relocation into a new block can fail only for a T that is copied.
CanFailRelocating(v, ncap) ==
  /\ alive[v]
  /\ ~RelocateByMove
  /\ CanAllocate(heap, ncap)

ReserveFails(v, c, k) ==
  /\ c > capacity[v]
  /\ CanFailRelocating(v, c)
  /\ k \in 0..(size[v] - 1)
  /\ Throws(ReserveFailOp(Cur, v, c, k))

PushBackFails(v, x, k) ==
  /\ ~(capacity[v] > size[v])
  /\ CanFailRelocating(v, GrowthCapacity(size[v]))
  /\ k \in 0..(size[v] - 1)
  /\ Throws(PushBackFailOp(Cur, v, x, k))

EmplaceBackFails(v, x, k) ==
  /\ ~(capacity[v] > size[v])
  /\ CanFailRelocating(v, GrowthCapacity(size[v]))
  /\ k \in 0..(size[v] - 1)
  /\ Throws(EmplaceBackFailOp(Cur, v, x, k))

EmplaceFails(v, pos, x, k) ==
  /\ ~(capacity[v] > size[v])
  /\ CanFailRelocating(v, GrowthCapacity(size[v]))
  /\ pos \in 0..size[v]
  /\ k \in 0..(size[v] - 1)
  /\ Throws(EmplaceFailOp(Cur, v, pos, x, k))

InsertFails(v, pos, x, k) ==
  /\ ~(capacity[v] > size[v])
  /\ CanFailRelocating(v, GrowthCapacity(size[v]))
  /\ pos \in 0..size[v]
  /\ k \in 0..(size[v] - 1)
  /\ Throws(InsertFailOp(Cur, v, pos, x, k))

CopyAssignFails(v, rhs, k, y) ==
  /\ alive[v] /\ alive[rhs] /\ v # rhs
  /\ size[rhs] > capacity[v] => CanAllocate(heap, size[rhs])
  /\ k \in 0..(size[rhs] - 1)
  /\ Throws(CopyAssignFailOp(Cur, v, rhs, k, y))

EmplaceInPlaceFails(v, pos, k, y, outcome) ==
  /\ alive[v]
  /\ capacity[v] > size[v]
  /\ pos \in 0..size[v]
  /\ k \in 0..(InPlaceSteps(Cur, v, pos) - 1)
  /\ Throws(EmplaceInPlaceFailOp(Cur, v, pos, k, y, outcome))

InsertInPlaceFails(v, pos, k, y, outcome) ==
  /\ alive[v]
  /\ capacity[v] > size[v]
  /\ pos \in 0..size[v]
  /\ k \in 0..(InPlaceSteps(Cur, v, pos) - 1)
  /\ Throws(InsertInPlaceFailOp(Cur, v, pos, k, y, outcome))

Spec == Init /\ [][Next]_vars

(* ---------------------- element types that throw ---------------------- *)
\* ThrowSpec: T is copy-constructible with a copy that can throw and is not
\* nothrow-move-constructible, so relocation copies.  A run is a sequence of
\* calls that complete, ended by the first call that fails: a growing call
\* failing in its relocation, or a copy assignment failing at an element.
ThrowInit == Start /\ byMove = FALSE

ThrowNext ==
  \/ Next
  \/ \E v \in Vecs, c \in 0..MaxSize, k \in 0..MaxSize : ReserveFails(v, c, k)
  \/ \E v \in Vecs, x \in Values, k \in 0..MaxSize : PushBackFails(v, x, k)
  \/ \E v \in Vecs, x \in Values, k \in 0..MaxSize : EmplaceBackFails(v, x, k)
  \/ \E v \in Vecs, pos \in 0..MaxSize, x \in Values, k \in 0..MaxSize :
       EmplaceFails(v, pos, x, k)
  \/ \E v \in Vecs, pos \in 0..MaxSize, x \in Values, k \in 0..MaxSize :
       InsertFails(v, pos, x, k)
  \/ \E v, rhs \in Vecs, k \in 0..MaxSize, y \in Values : CopyAssignFails(v, rhs, k, y)

ThrowSpec == ThrowInit /\ [][ThrowNext]_vars

\* InPlaceThrowSpec: the same element type, and the calls of Emplace and
\* Insert into a free slot that fail and run the handler of Emplace.
InPlaceThrowNext ==
  \/ Next
  \/ \E v \in Vecs, pos \in 0..MaxSize, k \in 0..(MaxSize + 1), y \in Values,
        outcome \in DeleteOutcomes : EmplaceInPlaceFails(v, pos, k, y, outcome)
  \/ \E v \in Vecs, pos \in 0..MaxSize, k \in 0..(MaxSize + 1), y \in Values,
        outcome \in DeleteOutcomes : InsertInPlaceFails(v, pos, k, y, outcome)

InPlaceThrowSpec == ThrowInit /\ [][InPlaceThrowNext]_vars

(* ------------------ calls with aliasing arguments --------------------- *)
EmplaceElem(v, pos, j) ==
  /\ CanGrow(v)
  /\ pos \in 0..size[v]
  /\ j \in 0..(size[v] - 1)
  /\ Step(EmplaceElemOp(Cur, v, pos, j))
  /\ UNCHANGED <<alive, hist>>

InsertElem(v, pos, j) ==
  /\ CanGrow(v)
  /\ pos \in 0..size[v]
  /\ j \in 0..(size[v] - 1)
  /\ Step(InsertElemOp(Cur, v, pos, j))
  /\ UNCHANGED <<alive, hist>>

PushBackElem(v, j) ==
  /\ CanGrow(v)
  /\ j \in 0..(size[v] - 1)
  /\ Step(PushBackElemOp(Cur, v, j))
  /\ UNCHANGED <<alive, hist>>

EmplaceBackElem(v, j) ==
  /\ CanGrow(v)
  /\ j \in 0..(size[v] - 1)
  /\ Step(EmplaceBackElemOp(Cur, v, j))
  /\ UNCHANGED <<alive, hist>>

\* AliasSpec: the calls of Spec, and the growing calls taken with an element
\* of the container itself as argument.
AliasNext ==
  \/ Next
  \/ \E v \in Vecs, pos \in 0..MaxSize, j \in 0..MaxSize : EmplaceElem(v, pos, j)
  \/ \E v \in Vecs, pos \in 0..MaxSize, j \in 0..MaxSize : InsertElem(v, pos, j)
  \/ \E v \in Vecs, j \in 0..MaxSize : PushBackElem(v, j)
  \/ \E v \in Vecs, j \in 0..MaxSize : EmplaceBackElem(v, j)

AliasSpec == Init /\ [][AliasNext]_vars

(* ------------------- PushBack/PopBack against a stack ------------------- *)
\* StackSpec drives vector A, starting empty, by PushBack and PopBack alone and
\* keeps beside it the sequence a reference stack holds.  The k-th PushBack
\* pushes k or 0.
StackPush(x) ==
  /\ npush + npop < MaxOps
  /\ alive["A"]
  /\ capacity["A"] > size["A"] \/ CanAllocate(heap, GrowthCapacity(size["A"]))
  /\ Becomes(PushBackOp(Cur, "A", x))
  /\ ref' = Append(ref, x)
  /\ npush' = npush + 1
  /\ UNCHANGED <<alive, npop, byMove, thrown>>

StackPop ==
  /\ npush + npop < MaxOps
  /\ alive["A"]
  /\ size["A"] > 0
  /\ Becomes(PopBackOp(Cur, "A"))
  /\ ref' = SubSeq(ref, 1, Len(ref) - 1)
  /\ npop' = npop + 1
  /\ UNCHANGED <<alive, npush, byMove, thrown>>

StackNext ==
  \/ \E x \in {0, npush} : StackPush(x)
  \/ StackPop

StackSpec == Init /\ [][StackNext]_vars

(* -------------------------------- claims -------------------------------- *)
\* The smallest power of two >= k, for k >= 1.
RECURSIVE Pow2AtLeast(_)
Pow2AtLeast(k) == IF k <= 1 THEN 1 ELSE 2 * Pow2AtLeast((k + 1) \div 2)

\* C1: starting from an empty Vector, after any sequence of PushBack and PopBack
\* calls (PopBack only when Size() > 0), Size() is the number of PushBack calls
\* minus the number of PopBack calls and the contents [0, Size()) are, in order,
\* what a reference stack holds, however many reallocations happened.
C1_StackContents ==
  /\ Size("A") = npush - npop
  /\ Elems("A") = ref

\* Some pops, then pushes that went through three reallocations (1, 2, 4).
C1_Witness ==
  /\ npop >= 2
  /\ Capacity("A") = 4
  /\ Size("A") = 3
  /\ Elems("A") = ref

\* C10: after k >= 1 consecutive PushBack calls on an empty container and no
\* other call, Capacity() is the smallest power of two >= k; pushing 0,1,2,3,4
\* gives Size() 5, contents [0,1,2,3,4] and Capacity() 8.
C10_Doubling ==
  /\ (npop = 0 /\ npush >= 1) => Capacity("A") = Pow2AtLeast(npush)
  /\ (npop = 0 /\ ref = <<0, 1, 2, 3, 4>>) =>
       /\ Size("A") = 5
       /\ Elems("A") = <<0, 1, 2, 3, 4>>
       /\ Capacity("A") = 8

C10_Witness ==
  /\ npop = 0
  /\ ref = <<0, 1, 2, 3, 4>>
  /\ Capacity("A") = 8

(* The claims below are about single calls.  Each is stated over every      *)
(* reachable state of Spec and every input the call accepts there, on the   *)
(* state the call's operator produces.                                      *)

\* old[0..pos) ++ [x] ++ old[pos..Size())
InsertedAt(old, pos, x) ==
  SubSeq(old, 1, pos) \o <<x>> \o SubSeq(old, pos + 1, Len(old))
\* old[0..pos) ++ old[pos+1..Size())
RemovedAt(old, pos) ==
  SubSeq(old, 1, pos) \o SubSeq(old, pos + 2, Len(old))

\* What Insert/Emplace at pos must leave behind, s being the state after.
InsertPost(s, v, pos, x) ==
  /\ ElemsIn(s, v) = InsertedAt(Elems(v), pos, x)
  /\ s.size[v] = size[v] + 1
  /\ s.ret = [blk |-> s.buffer[v], off |-> pos]
  /\ s.heap[s.ret.blk].alloc
  /\ Get(s.heap, s.ret.blk, s.ret.off) = x

\* C2: for every Vector state and every pos with 0 <= pos <= Size(),
\* Insert/Emplace at pos yields old[0..pos) ++ [v] ++ old[pos..Size()), Size()
\* grows by exactly one, and the returned iterator addresses index pos of the
\* (possibly relocated) storage, the inserted element; on the in-place path
\* (Capacity() > Size()) and on the reallocating path (Capacity() == Size()).
C2_InsertAtPos ==
  \A v \in Vecs, x \in Values :
    CanGrow(v) =>
      \A pos \in 0..size[v] :
        /\ InsertPost(InsertOp(Cur, v, pos, x), v, pos, x)
        /\ InsertPost(EmplaceOp(Cur, v, pos, x), v, pos, x)

\* One container about to insert in place before its three elements, the
\* other about to insert before its only element through a reallocation.
C2_Witness ==
  /\ CanGrow("A") /\ capacity["A"] > size["A"] /\ Elems("A") = <<0, 1, 1>>
  /\ ElemsIn(InsertOp(Cur, "A", 0, 1), "A") = <<1, 0, 1, 1>>
  /\ InsertOp(Cur, "A", 0, 1).buffer["A"] = buffer["A"]
  /\ CanGrow("B") /\ capacity["B"] = size["B"] /\ Elems("B") = <<1>>
  /\ ElemsIn(EmplaceOp(Cur, "B", 0, 0), "B") = <<0, 1>>
  /\ EmplaceOp(Cur, "B", 0, 0).buffer["B"] # buffer["B"]
  /\ EmplaceOp(Cur, "B", 0, 0).ret = [blk |-> EmplaceOp(Cur, "B", 0, 0).buffer["B"], off |-> 0]

\* What Erase at pos must leave behind, s being the state after.
ErasePost(s, v, pos) ==
  /\ ElemsIn(s, v) = RemovedAt(Elems(v), pos)
  /\ s.size[v] = size[v] - 1
  /\ s.capacity[v] = capacity[v]
  /\ s.ret = [blk |-> s.buffer[v], off |-> pos]
  /\ IF pos = size[v] - 1
     THEN s.ret.off = s.size[v]
     ELSE Get(s.heap, s.ret.blk, s.ret.off) = Elems(v)[pos + 2]

\* C3: for every Vector state and every pos with 0 <= pos < Size(), Erase(pos)
\* yields old[0..pos) ++ old[pos+1..Size()), Size() shrinks by exactly one,
\* Capacity() is unchanged, and the returned iterator is at index pos: the
\* element that followed the erased one, or end() when the last was erased.
\* Erase at the position a preceding Insert returned restores the contents
\* that preceded the Insert.
C3_EraseAtPos ==
  \A v \in Vecs :
    /\ alive[v] =>
         \A pos \in 0..(size[v] - 1) : ErasePost(EraseOp(Cur, v, pos), v, pos)
    /\ CanGrow(v) =>
         \A pos \in 0..size[v], x \in Values :
           LET s1 == InsertOp(Cur, v, pos, x)
               s2 == EraseOp(s1, v, s1.ret.off)
           IN s1.ret.blk = s1.buffer[v] /\ ElemsIn(s2, v) = Elems(v)

\* A container of three elements whose first is about to be erased, so that
\* two elements shift down; and an Insert followed by Erase giving it back.
C3_Witness ==
  /\ alive["A"] /\ Elems("A") = <<1, 0, 1>>
  /\ ElemsIn(EraseOp(Cur, "A", 0), "A") = <<0, 1>>
  /\ EraseOp(Cur, "A", 2).ret.off = 2
  /\ CanGrow("A")
  /\ ElemsIn(InsertOp(Cur, "A", 1, 1), "A") = <<1, 1, 0, 1>>
  /\ ElemsIn(EraseOp(InsertOp(Cur, "A", 1, 1), "A", 1), "A") = <<1, 0, 1>>

\* The states a mutating call on v can produce from s: PushBack, Insert,
\* Erase, Resize and an element write.
Mutations(s, v) ==
  {PushBackOp(s, v, x) : x \in Values}
    \cup {InsertOp(s, v, pos, x) : pos \in 0..s.size[v], x \in Values}
    \cup {EraseOp(s, v, pos) : pos \in 0..(s.size[v] - 1)}
    \cup {ResizeOp(s, v, n) : n \in 0..MaxSize}
    \cup {SetAtOp(s, v, index, x) : index \in 0..(s.size[v] - 1), x \in Values}

\* What copying o into v must leave behind, s being the state after.
CopyPost(s, v, o) ==
  /\ s.size[v] = size[o]
  /\ ElemsIn(s, v) = Elems(o)
  /\ s.size[o] = size[o] /\ s.capacity[o] = capacity[o] /\ s.buffer[o] = buffer[o]
  /\ ElemsIn(s, o) = Elems(o)
  /\ s.buffer[v] = Null \/ s.buffer[v] # s.buffer[o]
  /\ \A m \in Mutations(s, v) : m.size[o] = size[o] /\ ElemsIn(m, o) = Elems(o)

\* C4: copying a container A into B, by copy construction or by copy
\* assignment on either path, leaves B.Size() == A.Size() and B[i] == A[i],
\* leaves A unchanged, and gives B storage of its own (a block that is not
\* A's, or none when A is empty), so that a later PushBack, Insert, Erase,
\* Resize or element write on B changes neither A's size nor A's elements.
C4_CopyIsIndependent ==
  \A v, o \in Vecs :
    (v # o /\ alive[o]) =>
      CopyPost(IF alive[v] THEN CopyAssignOp(Cur, v, o) ELSE CopyCtorOp(Cur, v, o), v, o)

\* Both assignment paths in one state: A (3 elements) does not fit B's
\* capacity of 2, and B's two elements are assigned into A's larger storage.
C4_Witness ==
  /\ alive["A"] /\ alive["B"]
  /\ Elems("A") = <<1, 0, 1>> /\ capacity["A"] = 4
  /\ Elems("B") = <<0, 1>> /\ capacity["B"] = 2
  /\ ElemsIn(CopyAssignOp(Cur, "B", "A"), "B") = <<1, 0, 1>>
  /\ CopyAssignOp(Cur, "B", "A").buffer["B"] # buffer["B"]
  /\ ElemsIn(CopyAssignOp(Cur, "A", "B"), "A") = <<0, 1>>
  /\ CopyAssignOp(Cur, "A", "B").buffer["A"] = buffer["A"]
  /\ ElemsIn(SetAtOp(CopyAssignOp(Cur, "B", "A"), "B", 0, 0), "B") = <<0, 0, 1>>

\* What moving o into v must leave behind, s being the state after.
MovePost(s, v, o) ==
  /\ s.buffer[v] = buffer[o]
  /\ s.capacity[v] = capacity[o]
  /\ s.size[v] = size[o]
  /\ ElemsIn(s, v) = Elems(o)
  /\ buffer[o] # Null => s.heap[buffer[o]] = heap[buffer[o]]
  /\ s.size[o] = 0
  /\ s.capacity[o] = 0

\* C5: moving a container A into another container B, by move construction or
\* move assignment, leaves B holding exactly A's former block, size, capacity
\* and element sequence, and leaves A with Size() == 0 and Capacity() == 0.
C5_MoveTransfers ==
  \A v, o \in Vecs :
    (v # o /\ alive[o]) =>
      MovePost(IF alive[v] THEN MoveAssignOp(Cur, v, o) ELSE MoveCtorOp(Cur, v, o), v, o)

\* A holds two elements in a block of four and is about to be moved into B.
C5_Witness ==
  /\ alive["A"] /\ alive["B"]
  /\ Elems("A") = <<1, 0>> /\ capacity["A"] = 4
  /\ Elems("B") = <<0>>
  /\ ElemsIn(MoveAssignOp(Cur, "B", "A"), "B") = <<1, 0>>
  /\ MoveAssignOp(Cur, "B", "A").capacity = [A |-> 0, B |-> 4]

\* What Reserve(c) must leave behind, s being the state after.
ReservePost(s, v, c) ==
  /\ s.size[v] = size[v]
  /\ ElemsIn(s, v) = Elems(v)
  /\ IF c <= capacity[v]
     THEN s = Cur
     ELSE /\ s.capacity[v] = c
          /\ s.buffer[v] \notin {Null, buffer[v]}
          /\ s.heap[s.buffer[v]].alloc
          /\ Len(s.heap[s.buffer[v]].slots) = c
          /\ buffer[v] # Null => ~s.heap[buffer[v]].alloc

\* C6: Reserve(c) never changes Size() or the values and order of the
\* elements.  When c <= Capacity() it does nothing: Capacity() and the block
\* are unchanged.  When c > Capacity() the container afterwards holds a new
\* block of exactly c slots, and the old block is released.
C6_Reserve ==
  \A v \in Vecs :
    alive[v] => \A c \in 0..(MaxSize + 1) : ReservePost(ReserveOp(Cur, v, c), v, c)

\* A full block of two elements, which Reserve(4) replaces and Reserve(1) keeps.
C6_Witness ==
  /\ alive["A"] /\ Elems("A") = <<0, 1>> /\ capacity["A"] = 2
  /\ ReserveOp(Cur, "A", 4).capacity["A"] = 4
  /\ ElemsIn(ReserveOp(Cur, "A", 4), "A") = <<0, 1>>
  /\ ~ReserveOp(Cur, "A", 4).heap[buffer["A"]].alloc
  /\ ReserveOp(Cur, "A", 1) = Cur

\* What Resize(n) must leave behind, s being the state after.
ResizePost(s, v, n) ==
  /\ s.size[v] = n
  /\ n < size[v] =>
       /\ ElemsIn(s, v) = SubSeq(Elems(v), 1, n)
       /\ s.capacity[v] = capacity[v] /\ s.buffer[v] = buffer[v]
       /\ \A i \in n..(size[v] - 1) : Get(s.heap, buffer[v], i) = Dead
  /\ n > size[v] =>
       ElemsIn(s, v) = Elems(v) \o [i \in 1..(n - size[v]) |-> DefaultT]
  /\ n = size[v] => s = Cur

\* C7: Resize(n) always ends with Size() == n.  When n < Size(), elements
\* [0, n) are unchanged, elements [n, old Size()) are destroyed and Capacity()
\* is unchanged.  When n > Size(), elements [0, old Size()) are unchanged and
\* elements [old Size(), n) equal a default-constructed T, also when n exceeds
\* the capacity and a reallocation is needed.
C7_Resize ==
  \A v \in Vecs :
    alive[v] => \A n \in 0..(MaxSize + 1) : ResizePost(ResizeOp(Cur, v, n), v, n)

\* Two elements in a full block: Resize(4) reallocates and appends two
\* default values, Resize(1) destroys the second element in place.
C7_Witness ==
  /\ alive["A"] /\ Elems("A") = <<1, 1>> /\ capacity["A"] = 2
  /\ ElemsIn(ResizeOp(Cur, "A", 4), "A") = <<1, 1, 0, 0>>
  /\ ResizeOp(Cur, "A", 4).buffer["A"] # buffer["A"]
  /\ ElemsIn(ResizeOp(Cur, "A", 1), "A") = <<1>>
  /\ ResizeOp(Cur, "A", 1).capacity["A"] = 2

\* The step is a call on v that may lower v's capacity: a move assignment to
\* v, v being moved from, or a Swap.
LoweringCall(v) ==
  \E o \in Vecs :
    MoveAssign(v, o) \/ MoveAssign(o, v) \/ MoveCtor(o, v) \/ Swap(v, o) \/ Swap(o, v)

\* The step is a call on v that must not lower v's capacity.
KeepingCall(v) ==
  \/ \E x \in Values : PushBack(v, x) \/ EmplaceBack(v, x)
  \/ \E pos \in 0..MaxSize, x \in Values : Insert(v, pos, x) \/ Emplace(v, pos, x)
  \/ \E pos \in 0..MaxSize : Erase(v, pos)
  \/ PopBack(v)
  \/ \E c \in 0..MaxSize : Reserve(v, c)
  \/ \E n \in 0..MaxSize : Resize(v, n)
  \/ \E rhs \in Vecs : CopyAssign(v, rhs)

\* C8: over any sequence of operations on one container, Capacity() never
\* decreases in a step that is PushBack, EmplaceBack, PopBack, Insert, Emplace,
\* Erase, Reserve, Resize or copy assignment; the only steps that lower a
\* container's Capacity() are move assignment, being moved from, and Swap.
C8_CapacityMonotone ==
  [][\A v \in Vecs :
       (alive[v] /\ alive'[v] /\ capacity'[v] < capacity[v]) =>
         (LoweringCall(v) /\ ~KeepingCall(v))]_vars

\* A holds spare capacity that shrinking calls keep and a Swap with the
\* smaller B gives away.
C8_Witness ==
  /\ alive["A"] /\ alive["B"]
  /\ capacity["A"] = 4 /\ size["A"] = 3 /\ capacity["B"] = 1
  /\ ResizeOp(Cur, "A", 0).capacity["A"] = 4
  /\ PopBackOp(Cur, "A").capacity["A"] = 4
  /\ CopyAssignOp(Cur, "A", "B").capacity["A"] = 4
  /\ SwapOp(Cur, "A", "B").capacity["A"] = 1

\* C9: in every reachable state, whenever PushBack, EmplaceBack, Insert or
\* Emplace finds no free slot and reallocates, the new capacity is
\* max(1, 2 x old Capacity()): what the code computes from Size() agrees with
\* it, because Size() == Capacity() whenever there is no free slot.
C9_GrowthDoubles ==
  \A v \in Vecs :
    (alive[v] /\ ~(capacity[v] > size[v])) =>
      /\ GrowthCapacity(size[v]) = Max(1, 2 * capacity[v])
      /\ \A x \in Values :
           /\ PushBackOp(Cur, v, x).capacity[v] = Max(1, 2 * capacity[v])
           /\ EmplaceBackOp(Cur, v, x).capacity[v] = Max(1, 2 * capacity[v])
           /\ \A pos \in 0..size[v] :
                /\ InsertOp(Cur, v, pos, x).capacity[v] = Max(1, 2 * capacity[v])
                /\ EmplaceOp(Cur, v, pos, x).capacity[v] = Max(1, 2 * capacity[v])

\* A full block of three slots, as Reserve(3) or a copy leaves it: growing
\* from it asks for six slots.  B is full with one slot and grows to two.
C9_Witness ==
  /\ alive["A"] /\ capacity["A"] = 3 /\ size["A"] = 3
  /\ PushBackOp(Cur, "A", 1).capacity["A"] = 6
  /\ alive["B"] /\ capacity["B"] = 1 /\ size["B"] = 1
  /\ InsertOp(Cur, "B", 0, 1).capacity["B"] = 2

\* What Swap of v with another container o must leave behind.
SwapPost(s, v, o) ==
  /\ s.buffer[v] = buffer[o] /\ s.buffer[o] = buffer[v]
  /\ s.capacity[v] = capacity[o] /\ s.capacity[o] = capacity[v]
  /\ s.size[v] = size[o] /\ s.size[o] = size[v]
  /\ ElemsIn(s, v) = Elems(o) /\ ElemsIn(s, o) = Elems(v)
  /\ s.heap = heap
  /\ Abandoned(s) = {}

\* C11: Swap(other) exchanges the full state of the two containers: each holds
\* afterwards the block, capacity, size and element sequence the other held,
\* no element is constructed, destroyed or copied (the heap is unchanged), and
\* no block is released or lost.  Swapping twice restores both containers, and
\* swapping a container with itself leaves it unchanged.
C11_SwapExchanges ==
  \A v, o \in Vecs :
    (alive[v] /\ alive[o]) =>
      /\ v # o => SwapPost(SwapOp(Cur, v, o), v, o)
      /\ SwapOp(SwapOp(Cur, v, o), v, o) = Cur
      /\ SwapOp(SwapOp(Cur, v, o), o, v) = Cur
      /\ SwapOp(Cur, v, v) = Cur

\* Two containers that differ in block, capacity, size and elements.
C11_Witness ==
  /\ alive["A"] /\ alive["B"]
  /\ Elems("A") = <<1, 0, 1>> /\ capacity["A"] = 4
  /\ Elems("B") = <<0>> /\ capacity["B"] = 2
  /\ ElemsIn(SwapOp(Cur, "A", "B"), "A") = <<0>>
  /\ ElemsIn(SwapOp(Cur, "A", "B"), "B") = <<1, 0, 1>>
  /\ SwapOp(Cur, "A", "B").capacity = [A |-> 2, B |-> 4]

\* The representation invariant of one container in state s.
ValidIn(s, v) ==
  /\ s.size[v] <= s.capacity[v]
  /\ s.buffer[v] # Null =>
       /\ s.heap[s.buffer[v]].alloc
       /\ Len(s.heap[s.buffer[v]].slots) = s.capacity[v]
  /\ \A i \in 0..(s.capacity[v] - 1) :
       (Get(s.heap, s.buffer[v], i) # Dead) <=> (i < s.size[v])

\* C12: after any sequence of public operations that respect their
\* preconditions and complete, every container has Size() <= Capacity(), slots
\* [0, Size()) of its block hold live objects, and slots [Size(), Capacity())
\* hold no live object.
C12_Representation ==
  \A v \in Vecs : alive[v] => ValidIn(Cur, v)

\* A container with live elements below Size() and raw slots above it, one
\* of them left by an Erase or PopBack.
C12_Witness ==
  /\ alive["A"] /\ size["A"] = 2 /\ capacity["A"] = 4
  /\ alive["B"] /\ size["B"] = 0 /\ capacity["B"] = 2
  /\ ValidIn(PopBackOp(Cur, "A"), "A")
  /\ ValidIn(EraseOp(Cur, "A", 0), "A")

\* C13: at every moment, after any sequence of operations on the containers
\* (construction, copy and move construction, copy and move assignment, also
\* onto a non-empty target and onto itself, Swap, growth, destruction), every
\* block that was allocated and not released is owned by exactly one
\* container: no block is owned by two, and no call leaves a block without
\* an owner.
C13_SingleOwner ==
  /\ \A v, o \in Vecs : (v # o /\ buffer[v] # Null) => buffer[v] # buffer[o]
  /\ \A b \in Blocks : heap[b].alloc => \E v \in Vecs : buffer[v] = b
  /\ lost = "none"

\* C17: no block is ever released or abandoned while one of its slots still
\* holds a live object: every object constructed into a block is destroyed
\* before the block is released, also when a non-empty target is replaced by
\* move assignment.
C17_DestroyedBeforeRelease ==
  lost # "live"

\* RawMemory's invariant on the data_ of container v in state s.
RawValid(s, v) == (s.buffer[v] # Null) <=> (s.capacity[v] > 0)

\* C19: every RawMemory, in every reachable state (after construction with any
\* capacity including 0, move construction, move assignment including
\* self-assignment, being moved from, and Swap), has a non-null buffer if and
\* only if its capacity is greater than 0; a moved-from instance has a null
\* buffer and capacity 0.
C19_BufferIffCapacity ==
  /\ \A v \in Vecs : RawValid(Cur, v)
  /\ \A v, o \in Vecs :
       LET s == RawMoveAssign(Cur, v, o)
       IN /\ RawValid(s, v) /\ RawValid(s, o)
          /\ s.buffer[o] = Null /\ s.capacity[o] = 0
          /\ v # o => s.buffer[v] = buffer[o] /\ s.capacity[v] = capacity[o]
  /\ \A v \in Vecs, n \in 0..MaxSize :
       ~alive[v] => RawValid(SizedCtorOp(Cur, v, n), v)

\* A holds a block and B holds none; moving A's RawMemory into B's, and into
\* itself, leaves the source null with capacity 0.
C19_Witness ==
  /\ alive["A"] /\ alive["B"]
  /\ buffer["A"] # Null /\ capacity["A"] = 2
  /\ buffer["B"] = Null /\ capacity["B"] = 0
  /\ RawMoveAssign(Cur, "B", "A").capacity = [A |-> 0, B |-> 2]
  /\ RawMoveAssign(Cur, "A", "A").buffer["A"] = Null

\* Every live container satisfies the representation invariant.
Valid == \A v \in Vecs : alive[v] => ValidIn(Cur, v)

\* Container v is in s what it is now: same block, capacity, size, elements,
\* and nothing in the block was touched.
Untouched(s, v) ==
  /\ s.buffer[v] = buffer[v]
  /\ s.capacity[v] = capacity[v]
  /\ s.size[v] = size[v]
  /\ ElemsIn(s, v) = Elems(v)
  /\ buffer[v] # Null => s.heap[buffer[v]] = heap[buffer[v]]

\* C14: for an element type relocated by copy, if a copy construction fails
\* at any point while elements are relocated to a new block in Reserve,
\* PushBack, EmplaceBack or a reallocating Insert/Emplace, the container is
\* observably unchanged: same block, same Capacity(), same Size(), same
\* element values in the same order; the original elements are still alive
\* and the old block still allocated.
C14_StrongGuarantee ==
  (Valid /\ ~RelocateByMove) =>
    \A v \in Vecs :
      alive[v] =>
        \A k \in 0..(size[v] - 1) :
          /\ \A c \in (capacity[v] + 1)..(MaxSize + 1) :
               Untouched(ReserveFailOp(Cur, v, c, k), v)
          /\ ~(capacity[v] > size[v]) =>
               \A x \in Values :
                 /\ Untouched(PushBackFailOp(Cur, v, x, k), v)
                 /\ Untouched(EmplaceBackFailOp(Cur, v, x, k), v)
                 /\ \A pos \in 0..size[v] :
                      /\ Untouched(EmplaceFailOp(Cur, v, pos, x, k), v)
                      /\ Untouched(InsertFailOp(Cur, v, pos, x, k), v)

\* A full block of two elements: the second copy throws in PushBack, in
\* Reserve(4) and in an Emplace at the front, after the first copy was made.
C14_Witness ==
  /\ ~RelocateByMove /\ ~thrown
  /\ alive["A"] /\ Elems("A") = <<1, 0>> /\ capacity["A"] = 2
  /\ ElemsIn(PushBackFailOp(Cur, "A", 1, 1), "A") = <<1, 0>>
  /\ Released(PushBackFailOp(Cur, "A", 1, 1)) # {}
  /\ Untouched(ReserveFailOp(Cur, "A", 4, 1), "A")
  /\ Untouched(EmplaceFailOp(Cur, "A", 0, 1, 1), "A")

\* C15: when an element copy or assignment fails during copy assignment from
\* another container: on the path rhs.Size() > Capacity() the target is
\* untouched; on the path rhs.Size() <= Capacity() the target still owns its
\* block and satisfies the representation invariant, possibly with some
\* elements already assigned.  In both cases rhs is unchanged.
C15_CopyAssignFailure ==
  Valid =>
    \A v, rhs \in Vecs :
      (alive[v] /\ alive[rhs] /\ v # rhs) =>
        \A k \in 0..(size[rhs] - 1), y \in Values :
          LET s == CopyAssignFailOp(Cur, v, rhs, k, y)
          IN /\ Untouched(s, rhs)
             /\ size[rhs] > capacity[v] => Untouched(s, v)
             /\ size[rhs] <= capacity[v] =>
                  /\ ValidIn(s, v)
                  /\ s.buffer[v] = buffer[v]
                  /\ s.capacity[v] = capacity[v]

\* A = B fails at its second assignment and leaves A partially updated;
\* B = A fails in the temporary copy and leaves B untouched; A = B into spare
\* capacity fails in the uninitialized copy after one copy was made.
C15_Witness ==
  /\ ~thrown /\ alive["A"] /\ alive["B"]
  /\ Elems("A") = <<1>> /\ capacity["A"] = 4
  /\ Elems("B") = <<0, 0>> /\ capacity["B"] = 2
  /\ ElemsIn(CopyAssignFailOp(Cur, "A", "B", 0, 1), "A") = <<1>>
  /\ ElemsIn(CopyAssignFailOp(Cur, "A", "B", 1, 1), "A") = <<0>>
  /\ ValidIn(CopyAssignFailOp(Cur, "A", "B", 1, 1), "A")
  /\ ElemsIn(CopyAssignFailOp(Cur, "A", "B", 1, 1), "B") = <<0, 0>>

\* C16: when Insert/Emplace runs with Capacity() > Size() and any of its
\* steps fails (constructing the new value, constructing the tail slot,
\* shifting, assigning into the insertion point), the container is left
\* valid: it still owns its whole block, no part of the block has been
\* released, Size() <= Capacity(), slots [0, Size()) are live and slots
\* [Size(), Capacity()) hold no live object.
C16_InPlaceFailureValid ==
  Valid =>
    \A v \in Vecs :
      (alive[v] /\ capacity[v] > size[v]) =>
        \A pos \in 0..size[v], y \in Values, outcome \in DeleteOutcomes :
          \A k \in 0..(InPlaceSteps(Cur, v, pos) - 1) :
            /\ ValidIn(EmplaceInPlaceFailOp(Cur, v, pos, k, y, outcome), v)
            /\ Released(EmplaceInPlaceFailOp(Cur, v, pos, k, y, outcome)) = {}
            /\ ValidIn(InsertInPlaceFailOp(Cur, v, pos, k, y, outcome), v)
            /\ Released(InsertInPlaceFailOp(Cur, v, pos, k, y, outcome)) = {}

\* C18: in PushBack, EmplaceBack and Insert/Emplace the new element is
\* constructed from its arguments before any existing element is moved,
\* shifted, overwritten or destroyed; so when the argument refers to element
\* j of the same container, the inserted value equals that element's value
\* before the call, on the in-place and on the reallocating path.
C18_AliasedArgument ==
  \A v \in Vecs :
    CanGrow(v) =>
      \A j \in 0..(size[v] - 1) :
        /\ \A pos \in 0..size[v] :
             /\ InsertPost(EmplaceElemOp(Cur, v, pos, j), v, pos, Elems(v)[j + 1])
             /\ InsertPost(InsertElemOp(Cur, v, pos, j), v, pos, Elems(v)[j + 1])
        /\ ElemsIn(PushBackElemOp(Cur, v, j), v) = Append(Elems(v), Elems(v)[j + 1])
        /\ ElemsIn(EmplaceBackElemOp(Cur, v, j), v) = Append(Elems(v), Elems(v)[j + 1])

\* In place: Insert(begin(), v[2]) on <<0, 0, 1>>, whose element 2 is
\* shifted away before the assignment into pos.  Reallocating:
\* PushBack(v[0]) on a full <<1, 0>>, whose element 0 is relocated.
C18_Witness ==
  /\ alive["A"] /\ Elems("A") = <<0, 0, 1>> /\ capacity["A"] = 4
  /\ ElemsIn(InsertElemOp(Cur, "A", 0, 2), "A") = <<1, 0, 0, 1>>
  /\ InsertElemOp(Cur, "A", 0, 2).buffer["A"] = buffer["A"]
  /\ alive["B"] /\ Elems("B") = <<1>> /\ capacity["B"] = 1
  /\ ElemsIn(PushBackElemOp(Cur, "B", 0), "B") = <<1, 1>>
  /\ PushBackElemOp(Cur, "B", 0).buffer["B"] # buffer["B"]

====
